---- MODULE Spec2Model ----
(***************************************************************************)
(* A model of src/PromiseImpl.js: the future state machine (_resolve,      *)
(* _reject), the continuation scheduler (then), the Promise Resolution     *)
(* Procedure and the combinators built on them.  One synchronous turn of   *)
(* the JavaScript program (a call made by user code, or one setTimeout     *)
(* callback taken from the timer queue) is one action.                     *)
(***************************************************************************)
EXTENDS Integers, Sequences, FiniteSets, TLC

\* ------------------------------------------------------------------ bounds
MaxDeferred == 3      \* deferred handles created by user code
MaxCapCalls == 3      \* calls of resolve / reject capabilities by user code
MaxThens    == 1      \* calls of then() by user code
MaxSchedDeferred == 1 \* the same, where then() calls are scheduled
MaxSchedCalls == 2
MaxSchedThens == 3
MaxForeignDeferred == 2 \* the same, where handlers return foreign thenables
MaxForeignCalls == 2
MaxForeignThens == 2
MaxStaticDeferred == 1 \* the same, where PromiseImpl.resolve wraps thenables
MaxStaticCalls == 2
MaxStatic   == 1      \* calls of PromiseImpl.resolve(thenable)
MaxLater    == 2      \* callback invocations a foreign then makes later
MaxAllDeferred == 2   \* the same, where PromiseImpl.all is used
MaxAllCalls == 2
MaxAlls     == 1      \* calls of PromiseImpl.all
MaxAllLen   == 3      \* length of the iterable passed to all
MaxAllForeignDeferred == 1 \* the same, where all is given foreign thenables
MaxAllForeignCalls == 1
MaxAllForeign == 1
MaxAllForeignLen == 2
MaxSettledDeferred == 2 \* the same, where PromiseImpl.allSettled is used
MaxSettledCalls == 2
MaxAllSettled == 1    \* calls of PromiseImpl.allSettled
MaxSettledLen == 2    \* length of the iterable passed to allSettled
MaxRaceDeferred == 2  \* the same, where PromiseImpl.race is used
MaxRaceCalls == 2
MaxRaces    == 1      \* calls of PromiseImpl.race
MaxRaceLen  == 2      \* length of the iterable passed to race
MaxFinallyDeferred == 2 \* the same, where finally() is used
MaxFinallyCalls == 2
MaxFinallys == 1      \* calls of finally()

\* --------------------------------------------------------------- constants
STATUS_PENDING   == "pending"
STATUS_FULFILLED == "fulfilled"
STATUS_REJECTED  == "rejected"

\* ------------------------------------------------------------------ values
\* A JavaScript value: a tag and a number.  "plain" n is a primitive,
\* "promise" n the PromiseImpl with identity n, "thenable" n the foreign
\* object Thenables[n], "array" n the array `res` of the n-th all() call,
\* "error" n an Error object (1: the TypeError of 2.3.1, 2: an error thrown
\* by foreign code).
V(k, n)      == [kind |-> k, n |-> n]
Null         == V("null", 0)
Undefined    == V("undefined", 0)
Hole         == V("hole", 0)
Plain(n)     == V("plain", n)
PromiseV(n)  == V("promise", n)
ThenableV(n) == V("thenable", n)
ArrayV(n)    == V("array", n)
TypeError    == V("error", 1)
\* The object { status, value } or { status, reason } allSettled makes of the
\* value (or reason) v.
SettledRecord(st, v) == V(st \o ":" \o v.kind, v.n)
ForeignError == V("error", 2)

\* ---------------------------------------------------------------- closures
\* A function value: the closures the program creates, and the handlers user
\* code passes to then().
H(k, target, idx, val) == [kind |-> k, target |-> target, idx |-> idx, val |-> val]
NotAFunction      == H("none", 0, 0, Null)
UserReturns(v)    == H("returns", 0, 0, v)
UserThrows(v)     == H("throws", 0, 0, v)
Identity          == H("identity", 0, 0, Null)
Thrower           == H("thrower", 0, 0, Null)
ResolveCap(p)     == H("_resolve", p, 0, Null)
RejectCap(p)      == H("_reject", p, 0, Null)
PrpClosure(p)     == H("prp", p, 0, Null)
ResolvePromise(p, g) == H("resolvePromise", p, g, Null)
RejectPromise(p, g)  == H("rejectPromise", p, g, Null)
ProcessResFn(a, i)   == H("processRes", a, i, Null)
RecordFulfilled      == H("recordFulfilled", 0, 0, Null)
RecordRejected       == H("recordRejected", 0, 0, Null)
\* The two closures finally() passes to then(), for the call src.finally(f)
\* that returns dep, f a function that returns the value x; and the closures
\* `() => value` and `() => { throw reason }` they create.
FinallyFulfilled(src, dep, x) == H("finallyFulfilled", dep, src, x)
FinallyRejected(src, dep, x)  == H("finallyRejected", dep, src, x)
Constant(v)          == H("constant", 0, 0, v)
Rethrow(r)           == H("rethrow", 0, 0, r)

\* The callback handed to setTimeout by then(): run the handler h of the
\* path ("F": onFulfilled, "R": onRejected) for source src, settle dep.
Task(src, dep, path, h) == [src |-> src, dep |-> dep, path |-> path, h |-> h]

\* One invocation of a foreign then's callback, or the foreign then throwing.
Call(cb, arg) == [cb |-> cb, arg |-> arg]
NoCall        == Call("none", Null)

\* ------------------------------------------------------- foreign thenables
\* The foreign objects user code hands to the program.  `getter`: reading
\* x.then throws; `sync`: the callback invocations its then makes before it
\* returns; `throws`: its then throws after them; `keeps`: its then keeps
\* the two callbacks and may invoke them later.
Foreign(g, sync, t, k) == [getter |-> g, sync |-> sync, throws |-> t, keeps |-> k]
Thenables ==
  << Foreign(FALSE, << Call("res", Plain(1)) >>, FALSE, FALSE),
     Foreign(FALSE, << Call("res", Plain(1)), Call("rej", Plain(2)) >>, FALSE, FALSE),
     Foreign(FALSE, << Call("rej", Plain(2)), Call("res", Plain(1)) >>, TRUE, FALSE),
     Foreign(FALSE, << Call("res", Plain(1)), Call("res", Plain(2)) >>, TRUE, FALSE),
     Foreign(FALSE, << >>, TRUE, FALSE),
     Foreign(FALSE, << >>, FALSE, TRUE),
     Foreign(FALSE, << Call("res", PromiseV(1)), Call("rej", Plain(2)) >>, FALSE, FALSE),
     Foreign(FALSE, << Call("res", PromiseV(1)) >>, TRUE, TRUE),
     Foreign(FALSE, << Call("res", PromiseV(2)) >>, FALSE, FALSE),
     Foreign(FALSE, << Call("res", ThenableV(1)), Call("rej", Plain(2)) >>, FALSE, FALSE),
     Foreign(TRUE,  << >>, FALSE, FALSE) >>

\* ------------------------------------------------------------------- state
\* The program state: status, value, reason and the two callback registries
\* of every PromiseImpl (indexed by identity); the timer queue setTimeout
\* feeds; one record per call of a foreign then (`links`: the `called` flag
\* of the Resolution Procedure and the callbacks the foreign object holds);
\* the closure variables of every all() call (`alls`).  History: `invoked`
\* (the handlers of user then() calls, in the order they ran), `invokedArgs`
\* (the argument each of them was called with), `origin`,
\* `capFirst`, `capCount`, `returned`, `thens` (the calls of then(), with
\* the arguments as passed), `races` (the calls of race()) and `escaped` (an
\* exception left the program as a raw exception).
VARIABLES status, value, reason, onFulfilledCbs, onRejectedCbs, timers,
          links, alls, invoked, origin, capFirst, capCount, returned,
          escaped, laterCalls, thens, races, invokedArgs

vars == << status, value, reason, onFulfilledCbs, onRejectedCbs, timers,
           links, alls, invoked, origin, capFirst, capCount, returned,
           escaped, laterCalls, thens, races, invokedArgs >>

\* The state as one record, with the two registers of a running turn:
\* `threw` (an exception is propagating, `ret` is the thrown value) and
\* `ret` (the value the last call returned).
Cur ==
  [status |-> status, value |-> value, reason |-> reason,
   onFulfilledCbs |-> onFulfilledCbs, onRejectedCbs |-> onRejectedCbs,
   timers |-> timers, links |-> links, alls |-> alls, invoked |-> invoked,
   origin |-> origin, capFirst |-> capFirst, capCount |-> capCount,
   returned |-> returned, thens |-> thens, races |-> races,
   invokedArgs |-> invokedArgs,
   threw |-> FALSE, ret |-> Undefined]

\* The turn ends in state s; an exception still propagating escapes.
Becomes(s) ==
  /\ status' = s.status /\ value' = s.value /\ reason' = s.reason
  /\ onFulfilledCbs' = s.onFulfilledCbs /\ onRejectedCbs' = s.onRejectedCbs
  /\ timers' = s.timers /\ links' = s.links /\ alls' = s.alls
  /\ invoked' = s.invoked /\ origin' = s.origin
  /\ capFirst' = s.capFirst /\ capCount' = s.capCount
  /\ returned' = s.returned /\ thens' = s.thens /\ races' = s.races
  /\ invokedArgs' = s.invokedArgs
  /\ escaped' = (escaped \/ s.threw)

Ret(s, v)    == [s EXCEPT !.ret = v, !.threw = FALSE]
Throw(s, e)  == [s EXCEPT !.ret = e, !.threw = TRUE]
NumPromises(s) == Len(s.status)
Promises     == 1 .. Len(status)

RECURSIVE InvokeArrayFnsFrom(_, _, _)
RECURSIVE Invoke(_, _, _)
RECURSIVE promiseResolutionProcedure(_, _, _)
RECURSIVE RunForeign(_, _, _)
RECURSIVE AllLoop(_, _, _)
RECURSIVE Job(_, _)
RECURSIVE AllSettledLoop(_, _, _, _)
RECURSIVE AllSettledPush(_, _, _, _)
RECURSIVE RaceLoopOverAll(_, _, _, _)
RECURSIVE PromiseImpl_resolve(_, _)
RECURSIVE ThenOfRet(_, _, _)

\* ------------------------------------------------------------ the program
\* setTimeout(fn, 0): fn joins the end of the timer queue.
setTimeout(s, task) == [s EXCEPT !.timers = Append(@, task)]

\* A registry entry `() => { setTimeout(() => {...}, 0) }`: calling it only
\* schedules its task.
RegistryCb(s, task) == setTimeout(s, task)

InvokeArrayFnsFrom(s, fns, i) ==
  IF i > Len(fns) THEN s
  ELSE InvokeArrayFnsFrom(RegistryCb(s, fns[i]), fns, i + 1)

\* invokeArrayFns walking the array from its end.
invokeArrayFnsBackwards(s, fns) ==
  InvokeArrayFnsFrom(s, [i \in 1 .. Len(fns) |-> fns[Len(fns) + 1 - i]], 1)

\* invokeArrayFns stopping before the last element.
invokeArrayFnsButLast(s, fns) ==
  InvokeArrayFnsFrom(s, SubSeq(fns, 1, Len(fns) - 1), 1)

invokeArrayFns(s, fns) == InvokeArrayFnsFrom(s, fns, 1)

\* The fields a constructor call initialises.
NewPromiseImpl(s, how) ==
  [s EXCEPT !.status = Append(@, STATUS_PENDING),
            !.value = Append(@, Null),
            !.reason = Append(@, Null),
            !.onFulfilledCbs = Append(@, << >>),
            !.onRejectedCbs = Append(@, << >>),
            !.origin = Append(@, how),
            !.capFirst = Append(@, NoCall),
            !.capCount = Append(@, 0),
            !.returned = Append(@, Hole)]

\* _reject without its status test.
rejectUnguarded(s, p, r) ==
  Ret(invokeArrayFns([s EXCEPT !.status[p] = STATUS_REJECTED, !.reason[p] = r],
                     s.onRejectedCbs[p]), Undefined)

\* _reject of the future p
reject_(s, p, r) ==
  IF s.status[p] = STATUS_PENDING
  THEN Ret(invokeArrayFns([s EXCEPT !.status[p] = STATUS_REJECTED,
                                    !.reason[p] = r],
                          s.onRejectedCbs[p]), Undefined)
  ELSE Ret(s, Undefined)

\* The initializer of then() calling the handler's job itself when the source
\* is already settled.
ThenExecutorSync(s, src, promise2, onF, onR) ==
  CASE s.status[src] = STATUS_FULFILLED -> Job(s, Task(src, promise2, "F", onF))
    [] s.status[src] = STATUS_REJECTED -> Job(s, Task(src, promise2, "R", onR))
    [] s.status[src] = STATUS_PENDING ->
         [s EXCEPT
            !.onFulfilledCbs[src] = Append(@, Task(src, promise2, "F", onF)),
            !.onRejectedCbs[src] = Append(@, Task(src, promise2, "R", onR))]

\* The initializer of then() pushing its two callbacks whatever the status of
\* the source.
ThenExecutorAlwaysPushes(s, src, promise2, onF, onR) ==
  [(CASE s.status[src] = STATUS_FULFILLED ->
           setTimeout(s, Task(src, promise2, "F", onF))
      [] s.status[src] = STATUS_REJECTED ->
           setTimeout(s, Task(src, promise2, "R", onR))
      [] s.status[src] = STATUS_PENDING -> s)
   EXCEPT !.onFulfilledCbs[src] = Append(@, Task(src, promise2, "F", onF)),
          !.onRejectedCbs[src] = Append(@, Task(src, promise2, "R", onR))]

\* The initializer then() passes to the constructor of promise2; s.status[src]
\* is the same at its three tests.
ThenExecutor(s, src, promise2, onF, onR) ==
  CASE s.status[src] = STATUS_FULFILLED ->
         setTimeout(s, Task(src, promise2, "F", onF))
    [] s.status[src] = STATUS_REJECTED ->
         setTimeout(s, Task(src, promise2, "R", onR))
    [] s.status[src] = STATUS_PENDING ->
         [s EXCEPT
            !.onFulfilledCbs[src] = Append(@, Task(src, promise2, "F", onF)),
            !.onRejectedCbs[src] = Append(@, Task(src, promise2, "R", onR))]

IsUserHandler(h) == h.kind \in {"returns", "throws"}

\* History: the call src.then(onFulfilled, onRejected) that returns dep.
NoteThen(s, src, dep, onFulfilled, onRejected) ==
  [s EXCEPT !.thens = Append(@, [src |-> src, dep |-> dep,
                                 onFulfilled |-> onFulfilled,
                                 onRejected |-> onRejected])]

\* then() taking `value => value` for a missing onRejected too.
thenDefaultsToIdentity(s, src, onFulfilled, onRejected) ==
  Ret(ThenExecutor(
        NewPromiseImpl(NoteThen(s, src, NumPromises(s) + 1, onFulfilled, onRejected),
                       IF IsUserHandler(onFulfilled) \/ onFulfilled.kind = "none"
                       THEN "then" ELSE "internal"),
        src, NumPromises(s) + 1,
        IF onFulfilled.kind = "none" THEN Identity ELSE onFulfilled,
        IF onRejected.kind = "none" THEN Identity ELSE onRejected),
      PromiseV(NumPromises(s) + 1))

\* src.then(onFulfilled, onRejected)
then(s, src, onFulfilled, onRejected) ==
  Ret(ThenExecutor(
        NewPromiseImpl(NoteThen(s, src, NumPromises(s) + 1, onFulfilled, onRejected),
                       IF IsUserHandler(onFulfilled) \/ onFulfilled.kind = "none"
                       THEN "then" ELSE "internal"),
        src, NumPromises(s) + 1,
        IF onFulfilled.kind = "none" THEN Identity ELSE onFulfilled,
        IF onRejected.kind = "none" THEN Thrower ELSE onRejected),
      PromiseV(NumPromises(s) + 1))

\* _resolve without its test for a nested PromiseImpl.
resolveNoUnwrap(s, p, v) ==
  IF s.status[p] = STATUS_PENDING
  THEN Ret(invokeArrayFns([s EXCEPT !.status[p] = STATUS_FULFILLED, !.value[p] = v],
                          s.onFulfilledCbs[p]), Undefined)
  ELSE Ret(s, Undefined)

\* _resolve without its status test.
resolveOverwrites(s, p, v) ==
  IF v.kind = "promise"
  THEN then(s, v.n, ResolveCap(p), RejectCap(p))
  ELSE Ret(invokeArrayFns([s EXCEPT !.status[p] = STATUS_FULFILLED,
                                    !.value[p] = v],
                          s.onFulfilledCbs[p]), Undefined)

\* _resolve of the future p
resolve_(s, p, v) ==
  IF v.kind = "promise"
  THEN then(s, v.n, ResolveCap(p), RejectCap(p))
  ELSE IF s.status[p] = STATUS_PENDING
       THEN Ret(invokeArrayFns([s EXCEPT !.status[p] = STATUS_FULFILLED,
                                         !.value[p] = v],
                               s.onFulfilledCbs[p]), Undefined)
       ELSE Ret(s, Undefined)

\* JavaScript's res[index] = v on an array: the array grows, leaving holes.
ArraySet(res, i, v) ==
  IF i <= Len(res) THEN [res EXCEPT ![i] = v]
  ELSE res \o [k \in 1 .. (i - Len(res) - 1) |-> Hole] \o << v >>

\* processRes of the a-th all() call, after its two assignments.
ProcessResTest(s, a) ==
  IF s.alls[a].fulfilledCount = Len(s.alls[a].iterable)
  THEN Ret(resolve_(s, s.alls[a].target, ArrayV(a)), Undefined)
  ELSE Ret(s, Undefined)

\* processRes storing the values in the order they arrive.
processResPush(s, a, index, v) ==
  ProcessResTest([s EXCEPT !.alls[a].res = Append(@, v),
                           !.alls[a].fulfilledCount = @ + 1,
                           !.alls[a].order = Append(@, index)], a)

\* processRes of the a-th all() call (`order` is history: the indexes in the
\* order they reported).
processRes(s, a, index, v) ==
  ProcessResTest([s EXCEPT !.alls[a].res = ArraySet(@, index, v),
                           !.alls[a].fulfilledCount = @ + 1,
                           !.alls[a].order = Append(@, index)], a)

\* A call x.then(resH, rejH) of a foreign then is about to be made.
NewLink(s, via, target, t, resH, rejH) ==
  [s EXCEPT !.links = Append(@, [via |-> via, target |-> target, thenable |-> t,
                                 resH |-> resH, rejH |-> rejH, called |-> FALSE,
                                 kept |-> FALSE, first |-> NoCall, ncalls |-> 0])]

\* History: what the foreign then of link g did first, and how many callback
\* invocations it has made.
NoteCall(s, g, c) ==
  [s EXCEPT !.links[g].first = IF @ = NoCall THEN c ELSE @,
            !.links[g].ncalls = IF c.cb = "throw" THEN @ ELSE @ + 1]

\* resolvePromise leaving `called` unset.
resolvePromiseForgets(s, promise, g, y) ==
  IF s.links[g].called THEN Ret(s, Undefined)
  ELSE Ret(promiseResolutionProcedure(s, promise, y), Undefined)

\* resolvePromise, the first callback the Resolution Procedure hands to a
\* foreign then.
resolvePromise(s, promise, g, y) ==
  IF s.links[g].called THEN Ret(s, Undefined)
  ELSE Ret(promiseResolutionProcedure([s EXCEPT !.links[g].called = TRUE],
                                      promise, y), Undefined)

\* rejectPromise, the second callback.
rejectPromise(s, promise, g, r) ==
  IF s.links[g].called THEN Ret(s, Undefined)
  ELSE Ret(reject_([s EXCEPT !.links[g].called = TRUE], promise, r), Undefined)

\* onFinally(): the function given to finally() is called with no argument
\* and returns h.val (history: the call, and the argument it received).
CallOnFinally(s, h, path) ==
  Ret([s EXCEPT !.invoked =
         Append(@, Task(h.idx, h.target, path, H("onFinally", 0, 0, Undefined))),
                !.invokedArgs = Append(@, Undefined)],
      h.val)

\* value => onFinally() returning the value at once.
finallyOnFulfilledNoWait(s, h, v) == Ret(CallOnFinally(s, h, "F"), v)

\* value => PromiseImpl.resolve(onFinally()).then(() => value)
finallyOnFulfilled(s, h, v) ==
  ThenOfRet(PromiseImpl_resolve(CallOnFinally(s, h, "F"), h.val),
            Constant(v), NotAFunction)

\* reason => PromiseImpl.resolve(onFinally()).then(() => { throw reason })
finallyOnRejected(s, h, r) ==
  ThenOfRet(PromiseImpl_resolve(CallOnFinally(s, h, "R"), h.val),
            Rethrow(r), NotAFunction)

\* Calling the function value h with one argument.
Invoke(s, h, arg) ==
  CASE h.kind = "returns"  -> Ret(s, h.val)
    [] h.kind = "throws"   -> Throw(s, h.val)
    [] h.kind = "identity" -> Ret(s, arg)
    [] h.kind = "thrower"  -> Throw(s, arg)
    [] h.kind = "_resolve" -> resolve_(s, h.target, arg)
    [] h.kind = "_reject"  -> reject_(s, h.target, arg)
    [] h.kind = "prp"      -> promiseResolutionProcedure(s, h.target, arg)
    [] h.kind = "resolvePromise" -> resolvePromise(s, h.target, h.idx, arg)
    [] h.kind = "rejectPromise"  -> rejectPromise(s, h.target, h.idx, arg)
    [] h.kind = "processRes"     -> processRes(s, h.target, h.idx, arg)
    [] h.kind = "recordFulfilled" -> Ret(s, SettledRecord(STATUS_FULFILLED, arg))
    [] h.kind = "recordRejected"  -> Ret(s, SettledRecord(STATUS_REJECTED, arg))
    [] h.kind = "finallyFulfilled" -> finallyOnFulfilled(s, h, arg)
    [] h.kind = "finallyRejected"  -> finallyOnRejected(s, h, arg)
    [] h.kind = "constant" -> Ret(s, h.val)
    [] h.kind = "rethrow"  -> Throw(s, h.val)

\* The callback the foreign then of link g invokes for the call c.
CallbackOf(s, g, c) == IF c.cb = "res" THEN s.links[g].resH ELSE s.links[g].rejH

\* The body of the foreign then of link g, from its i-th callback invocation.
RunForeign(s, g, i) ==
  IF s.threw THEN s
  ELSE IF i > Len(Thenables[s.links[g].thenable].sync)
  THEN IF Thenables[s.links[g].thenable].throws
       THEN Throw(NoteCall(s, g, Call("throw", ForeignError)), ForeignError)
       ELSE Ret(s, Undefined)
  ELSE RunForeign(Invoke(NoteCall(s, g, Thenables[s.links[g].thenable].sync[i]),
                         CallbackOf(s, g, Thenables[s.links[g].thenable].sync[i]),
                         Thenables[s.links[g].thenable].sync[i].arg),
                  g, i + 1)

\* `x.then` is read for an object x (s.ret is left alone when it throws
\* nothing). 
GetThen(s, x) ==
  IF x.kind = "thenable" /\ Thenables[x.n].getter
  THEN Throw(NoteCall(s, Len(s.links), Call("throw", ForeignError)), ForeignError)
  ELSE s

\* then.call(x, resH, rejH) for the foreign object of the newest link, after
\* x.then was read.
ForeignThen(s) ==
  IF s.threw THEN s
  ELSE RunForeign([s EXCEPT !.links[Len(s.links)].kept =
                               Thenables[s.links[Len(s.links)].thenable].keeps],
                  Len(s.links), 1)

IsObject(x) == x.kind \in {"thenable", "array", "error"}
HasThenFunction(x) == x.kind = "thenable"

\* The catch block of the Resolution Procedure, for the call with link g.
PrpCatch(s, promise, g) ==
  IF s.threw
  THEN IF s.links[g].called THEN Ret(s, Undefined)
       ELSE reject_(Ret([s EXCEPT !.links[g].called = TRUE], Undefined),
                    promise, s.ret)
  ELSE Ret(s, Undefined)

\* The Resolution Procedure without step 2.3.1.
prpWithoutSelfTest(s, promise, x) ==
  IF x.kind = "promise"
  THEN then(s, x.n, PrpClosure(promise), RejectCap(promise))
  ELSE IF IsObject(x) /\ HasThenFunction(x)
  THEN PrpCatch(
         ForeignThen(
           GetThen(NewLink(s, "prp", promise, x.n,
                           ResolvePromise(promise, Len(s.links) + 1),
                           RejectPromise(promise, Len(s.links) + 1)), x)),
         promise, Len(s.links) + 1)
  ELSE Ret(resolve_(s, promise, x), Undefined)

promiseResolutionProcedure(s, promise, x) ==
  IF x = PromiseV(promise) THEN reject_(s, promise, TypeError)
  ELSE IF x.kind = "promise"
  THEN then(s, x.n, PrpClosure(promise), RejectCap(promise))
  ELSE IF IsObject(x) /\ HasThenFunction(x)
  THEN PrpCatch(
         ForeignThen(
           GetThen(NewLink(s, "prp", promise, x.n,
                           ResolvePromise(promise, Len(s.links) + 1),
                           RejectPromise(promise, Len(s.links) + 1)), x)),
         promise, Len(s.links) + 1)
  ELSE Ret(resolve_(s, promise, x), Undefined)

\* The catch block of the callback then() hands to setTimeout.
JobCatch(s, dep) ==
  IF s.threw THEN reject_(Ret(s, Undefined), dep, s.ret) ELSE s

\* The try block of that callback, after the handler was called.
JobSettle(s, dep) ==
  IF s.threw THEN s
  ELSE promiseResolutionProcedure([s EXCEPT !.returned[dep] = s.ret], dep, s.ret)

\* The callback then() hands to setTimeout.
Job(s, task) ==
  JobCatch(
    JobSettle(
      Invoke(IF IsUserHandler(task.h)
             THEN [s EXCEPT !.invoked = Append(@, task),
                            !.invokedArgs =
                               Append(@, IF task.path = "F" THEN s.value[task.src]
                                         ELSE s.reason[task.src])]
             ELSE s,
             task.h,
             IF task.path = "F" THEN s.value[task.src] ELSE s.reason[task.src]),
      task.dep),
    task.dep)

\* The catch block of the constructor, around the initializer of p.
ConstructorCatch(s, p) ==
  IF s.threw THEN reject_(Ret(s, Undefined), p, s.ret) ELSE s

\* PromiseImpl.resolve(value)
PromiseImpl_resolve(s, x) ==
  IF x.kind = "promise" THEN Ret(s, x)
  ELSE IF IsObject(x) /\ HasThenFunction(x)
  THEN IF Thenables[x.n].getter THEN Throw(s, ForeignError)
       ELSE Ret(ConstructorCatch(
                  ForeignThen(
                    GetThen(NewLink(NewPromiseImpl(s, "resolve"), "resolve",
                                    NumPromises(s) + 1, x.n,
                                    ResolveCap(NumPromises(s) + 1),
                                    RejectCap(NumPromises(s) + 1)), x)),
                  NumPromises(s) + 1),
                PromiseV(NumPromises(s) + 1))
  ELSE Ret(resolve_(NewPromiseImpl(s, "resolve"), NumPromises(s) + 1, x),
           PromiseV(NumPromises(s) + 1))

Truthy(x) == x.kind \notin {"null", "undefined"} /\ x # Plain(0)

\* The loop body of all() treating a rejection of an input future as its
\* value.
AllElementCollects(s, a, i, iterator) ==
  IF iterator.kind = "promise"
  THEN then(s, iterator.n, ProcessResFn(a, i), ProcessResFn(a, i))
  ELSE IF Truthy(iterator) /\ HasThenFunction(iterator)
  THEN IF Thenables[iterator.n].getter THEN Throw(s, ForeignError)
       ELSE ForeignThen(
              GetThen(NewLink(s, "all", s.alls[a].target, iterator.n,
                              ProcessResFn(a, i), RejectCap(s.alls[a].target)),
                      iterator))
  ELSE processRes(s, a, i, iterator)

\* One element of the iterable of the a-th all() call (index i, 1-based here).
AllElement(s, a, i, iterator) ==
  IF iterator.kind = "promise"
  THEN then(s, iterator.n, ProcessResFn(a, i), RejectCap(s.alls[a].target))
  ELSE IF Truthy(iterator) /\ HasThenFunction(iterator)
  THEN IF Thenables[iterator.n].getter THEN Throw(s, ForeignError)
       ELSE ForeignThen(
              GetThen(NewLink(s, "all", s.alls[a].target, iterator.n,
                              ProcessResFn(a, i), RejectCap(s.alls[a].target)),
                      iterator))
  ELSE processRes(s, a, i, iterator)

\* The for loop of PromiseImpl.all, from index i.
AllLoop(s, a, i) ==
  IF s.threw \/ i > Len(s.alls[a].iterable) THEN s
  ELSE AllLoop(AllElement(s, a, i, s.alls[a].iterable[i]), a, i + 1)

\* The initializer of PromiseImpl.all.
AllExecutor(s, a) ==
  IF Len(s.alls[a].iterable) = 0
  THEN resolve_(s, s.alls[a].target, ArrayV(a))
  ELSE AllLoop(s, a, 1)

\* PromiseImpl.all(iterable), for an array.
PromiseImpl_all(s, iterable) ==
  Ret(ConstructorCatch(
        AllExecutor([NewPromiseImpl(s, "all") EXCEPT
                       !.alls = Append(@, [target |-> NumPromises(s) + 1,
                                           iterable |-> iterable,
                                           fulfilledCount |-> 0,
                                           res |-> << >>,
                                           order |-> << >>])],
                    Len(s.alls) + 1),
        NumPromises(s) + 1),
      PromiseV(NumPromises(s) + 1))

\* One element of the iterable passed to race(), p the future race() returns.
RaceElement(s, p, iterator) ==
  IF iterator.kind = "promise"
  THEN then(s, iterator.n, ResolveCap(p), RejectCap(p))
  ELSE IF Truthy(iterator) /\ HasThenFunction(iterator)
  THEN IF Thenables[iterator.n].getter THEN Throw(s, ForeignError)
       ELSE ForeignThen(
              GetThen(NewLink(s, "race", p, iterator.n, ResolveCap(p), RejectCap(p)),
                      iterator))
  ELSE resolve_(s, p, iterator)

\* The for loop of race() going on to the next element.
RaceLoopOverAll(s, p, iterable, i) ==
  IF s.threw \/ i > Len(iterable) THEN s
  ELSE RaceLoopOverAll(RaceElement(s, p, iterable[i]), p, iterable, i + 1)

\* The for loop of race() from index i: both branches of its body return.
RaceLoop(s, p, iterable, i) ==
  IF i > Len(iterable) THEN s ELSE RaceElement(s, p, iterable[i])

\* PromiseImpl.race(iterable), for an array (`races` is history).
PromiseImpl_race(s, iterable) ==
  Ret(ConstructorCatch(
        RaceLoop([NewPromiseImpl(s, "race") EXCEPT
                    !.races = Append(@, [target |-> NumPromises(s) + 1,
                                         iterable |-> iterable])],
                 NumPromises(s) + 1, iterable, 1),
        NumPromises(s) + 1),
      PromiseV(NumPromises(s) + 1))

\* s.ret.then(onFulfilled, onRejected), for the future the last call returned.
ThenOfRet(s, onFulfilled, onRejected) ==
  IF s.threw THEN s ELSE then(s, s.ret.n, onFulfilled, onRejected)

\* allSettled recording fulfilments only.
AllSettledElementFulfilled(s, iterator) ==
  ThenOfRet(PromiseImpl_resolve(s, iterator), RecordFulfilled, NotAFunction)

\* PromiseImpl.resolve(iterator).then(value => ..., reason => ...)
AllSettledElement(s, iterator) ==
  ThenOfRet(PromiseImpl_resolve(s, iterator), RecordFulfilled, RecordRejected)

\* promises.push(...) of the future the last call returned.
AllSettledPush(s, iterable, i, promises) ==
  IF s.threw THEN s
  ELSE AllSettledLoop(s, iterable, i + 1, Append(promises, s.ret))

\* The for loop of PromiseImpl.allSettled from index i, and the call of all.
AllSettledLoop(s, iterable, i, promises) ==
  IF i > Len(iterable) THEN PromiseImpl_all(s, promises)
  ELSE AllSettledPush(AllSettledElement(s, iterable[i]), iterable, i, promises)

\* PromiseImpl.allSettled(iterable), for an array.
PromiseImpl_allSettled(s, iterable) == AllSettledLoop(s, iterable, 1, << >>)

\* src.finally(onFinally), onFinally a function that returns x (`origin` is
\* history).
finally(s, src, x) ==
  [then(s, src, FinallyFulfilled(src, NumPromises(s) + 1, x),
                FinallyRejected(src, NumPromises(s) + 1, x))
     EXCEPT !.origin[NumPromises(s) + 1] = "finally"]

\* src.catch(onRejected)
catch(s, src, onRejected) == then(s, src, NotAFunction, onRejected)

\* PromiseImpl.deferred(): a pending future whose two capabilities user code holds.
deferred(s) == Ret(NewPromiseImpl(s, "deferred"), PromiseV(NumPromises(s) + 1))

\* History: user code calls a capability of p.
NoteCap(s, p, c) ==
  [s EXCEPT !.capFirst[p] = IF @ = NoCall THEN c ELSE @, !.capCount[p] = @ + 1]

\* ----------------------------------------------------------------- actions
Count(seq, x) == Cardinality({i \in 1 .. Len(seq) : seq[i] = x})
RECURSIVE Sum(_)
Sum(seq) == IF seq = << >> THEN 0 ELSE Head(seq) + Sum(Tail(seq))

Init ==
  /\ status = << >> /\ value = << >> /\ reason = << >>
  /\ onFulfilledCbs = << >> /\ onRejectedCbs = << >>
  /\ timers = << >> /\ links = << >> /\ alls = << >> /\ invoked = << >>
  /\ origin = << >> /\ capFirst = << >> /\ capCount = << >> /\ returned = << >>
  /\ escaped = FALSE /\ laterCalls = 0 /\ thens = << >> /\ races = << >>
  /\ invokedArgs = << >>

\* The plain values and the futures user code passes around.
PlainValue  == Plain(1)
PlainReason == Plain(2)
Deferreds   == {q \in Promises : origin[q] = "deferred"}
DeferredValues == {PromiseV(q) : q \in Deferreds}

\* user code: d = PromiseImpl.deferred()
NewDeferredUpTo(max) ==
  /\ Count(origin, "deferred") < max
  /\ Becomes(deferred(Cur))
  /\ UNCHANGED laterCalls

\* user code: d.resolve(v)
CallResolveWith(args, max) ==
  \E p \in Deferreds, v \in args :
    /\ Sum(capCount) < max
    /\ Becomes(resolve_(NoteCap(Cur, p, Call("res", v)), p, v))
    /\ UNCHANGED laterCalls

\* user code: d.reject(r)
CallRejectWith(args, max) ==
  \E p \in Deferreds, r \in args :
    /\ Sum(capCount) < max
    /\ Becomes(reject_(NoteCap(Cur, p, Call("rej", r)), p, r))
    /\ UNCHANGED laterCalls

\* user code: p.then(f, r)
CallThenWith(srcs, handlers, max) ==
  \E p \in srcs, h \in handlers :
    /\ Count(origin, "then") < max
    /\ Becomes(then(Cur, p, h[1], h[2]))
    /\ UNCHANGED laterCalls

\* The event loop runs the oldest timer callback.
RunTask ==
  /\ timers # << >>
  /\ Becomes(Job([Cur EXCEPT !.timers = Tail(@)], Head(timers)))
  /\ UNCHANGED laterCalls

\* --------------------------------------------- settlement and nested futures
\* User code creates deferred handles, calls their capabilities with plain
\* values and with futures (itself included), and chains one then() whose
\* handler returns a future.
NewDeferred == NewDeferredUpTo(MaxDeferred)
CallResolve == CallResolveWith({PlainValue} \cup DeferredValues, MaxCapCalls)
CallReject  == CallRejectWith({PlainReason}, MaxCapCalls)
CallThen    ==
  CallThenWith(Deferreds,
               {<< UserReturns(v), NotAFunction >> : v \in DeferredValues},
               MaxThens)

Next == NewDeferred \/ CallResolve \/ CallReject \/ CallThen \/ RunTask

Spec == Init /\ [][Next]_vars

\* ------------------------------------------------------ scheduling of then
\* User code holds one deferred handle, settles it with plain values, and
\* calls then() on it and on the futures then() returned, before and after
\* the settlement, with handlers that return, throw, or are missing.
SchedHandlers ==
  { << NotAFunction, NotAFunction >>,
    << UserReturns(Plain(3)), UserReturns(Plain(5)) >>,
    << UserThrows(Plain(4)), NotAFunction >> }
SchedNewDeferred == NewDeferredUpTo(MaxSchedDeferred)
SchedResolve == CallResolveWith({PlainValue}, MaxSchedCalls)
SchedReject  == CallRejectWith({PlainReason}, MaxSchedCalls)
SchedThen    == CallThenWith(Promises, SchedHandlers, MaxSchedThens)

NextThen == SchedNewDeferred \/ SchedResolve \/ SchedReject \/ SchedThen \/ RunTask

SpecThen == Init /\ [][NextThen]_vars

\* The event loop runs every callback handed to setTimeout.
SpecThenFair == SpecThen /\ WF_vars(RunTask)

\* The same, with calls of catch().
SchedCatch ==
  \E p \in Promises, h \in {UserReturns(Plain(5)), UserThrows(Plain(6))} :
    /\ Count(origin, "then") < MaxSchedThens
    /\ Becomes(catch(Cur, p, h))
    /\ UNCHANGED laterCalls

NextCatch ==
  \/ SchedNewDeferred \/ SchedResolve \/ SchedReject \/ SchedThen \/ SchedCatch
  \/ RunTask

SpecCatch == Init /\ [][NextCatch]_vars

\* ------------------------------------------------------- foreign thenables
\* The foreign object t can be handed over when n futures exist: the futures
\* its then passes to its callbacks exist.
Usable(t, n) ==
  \A i \in 1 .. Len(Thenables[t].sync) :
    Thenables[t].sync[i].arg.kind = "promise" => Thenables[t].sync[i].arg.n <= n
UsableThenables(n) ==
  {ThenableV(t) : t \in {u \in 1 .. Len(Thenables) : Usable(u, n)}}

\* user code: PromiseImpl.resolve(x) for a foreign thenable x
StaticResolve ==
  \E x \in UsableThenables(Len(status)) :
    /\ Count(origin, "resolve") < MaxStatic
    /\ Becomes(PromiseImpl_resolve(Cur, x))
    /\ UNCHANGED laterCalls

\* A foreign then that kept its callbacks invokes one of them later.
LaterCall ==
  \E g \in 1 .. Len(links) :
    \E c \in {Call("res", PlainValue), Call("rej", PlainReason)}
               \cup {Call("res", v) : v \in DeferredValues} :
      /\ links[g].kept
      /\ laterCalls < MaxLater
      /\ laterCalls' = laterCalls + 1
      /\ Becomes(Invoke(NoteCall(Cur, g, c), CallbackOf(Cur, g, c), c.arg))

\* User code holds deferred handles, settles them with plain values, and
\* calls then() on them with handlers that return a foreign thenable or the
\* dependent future itself.
ForeignNewDeferred == NewDeferredUpTo(MaxForeignDeferred)
ForeignResolve == CallResolveWith({PlainValue}, MaxForeignCalls)
ForeignReject  == CallRejectWith({PlainReason}, MaxForeignCalls)
ForeignHandlers(dep) ==
  {<< UserReturns(x), NotAFunction >> : x \in UsableThenables(dep) \cup {PromiseV(dep)}}
ThenForeign ==
  CallThenWith(Deferreds, ForeignHandlers(Len(status) + 1), MaxForeignThens)

NextForeign ==
  \/ ForeignNewDeferred \/ ForeignResolve \/ ForeignReject \/ ThenForeign
  \/ LaterCall \/ RunTask

SpecForeign == Init /\ [][NextForeign]_vars

\* User code holds a deferred handle, calls its resolve capability with plain
\* values and foreign thenables, and wraps foreign thenables with
\* PromiseImpl.resolve.
StaticNewDeferred == NewDeferredUpTo(MaxStaticDeferred)
StaticCapResolve ==
  CallResolveWith({PlainValue} \cup UsableThenables(Len(status)), MaxStaticCalls)
StaticCapReject == CallRejectWith({PlainReason}, MaxStaticCalls)

NextStatic ==
  \/ StaticNewDeferred \/ StaticCapResolve \/ StaticCapReject
  \/ StaticResolve \/ LaterCall \/ RunTask

SpecStatic == Init /\ [][NextStatic]_vars

\* --------------------------------------------------------------------- all
\* The arrays of length at most n over the set S.
RECURSIVE ArraysUpTo(_, _)
ArraysUpTo(S, n) ==
  IF n = 0 THEN {<< >>}
  ELSE ArraysUpTo(S, n - 1)
         \cup {Append(a, x) : a \in {b \in ArraysUpTo(S, n - 1) : Len(b) = n - 1},
                              x \in S}

\* user code: PromiseImpl.all(iterable)
CallAllWith(inputs, max) ==
  \E iterable \in ArraysUpTo(inputs, MaxAllLen) :
    /\ Len(alls) < max
    /\ Becomes(PromiseImpl_all(Cur, iterable))
    /\ UNCHANGED laterCalls

\* User code holds deferred handles, passes an array of them and of plain
\* values to PromiseImpl.all, and settles the handles in any order.
AllNewDeferred == NewDeferredUpTo(MaxAllDeferred)
AllCapResolve  == CallResolveWith({Plain(1), Plain(3)}, MaxAllCalls)
AllCapReject   == CallRejectWith({PlainReason}, MaxAllCalls)
CallAll        == CallAllWith({Plain(7)} \cup DeferredValues, MaxAlls)

NextAll == AllNewDeferred \/ AllCapResolve \/ AllCapReject \/ CallAll \/ RunTask

SpecAll == Init /\ [][NextAll]_vars

\* The same, the handles rejected with different reasons.
AllCapRejectEach == CallRejectWith({PlainReason, Plain(4)}, MaxAllCalls)

NextAllReject ==
  AllNewDeferred \/ AllCapResolve \/ AllCapRejectEach \/ CallAll \/ RunTask

SpecAllReject == Init /\ [][NextAllReject]_vars

\* -------------------------------------------------------------- allSettled
\* User code holds deferred handles, passes an array of them and of plain
\* values to PromiseImpl.allSettled, and settles the handles in any order.
SettledNewDeferred == NewDeferredUpTo(MaxSettledDeferred)
SettledCapResolve  == CallResolveWith({PlainValue}, MaxSettledCalls)
SettledCapReject   == CallRejectWith({PlainReason}, MaxSettledCalls)
CallAllSettled ==
  \E iterable \in ArraysUpTo({Plain(7)} \cup DeferredValues, MaxSettledLen) :
    /\ Len(alls) < MaxAllSettled
    /\ Becomes(PromiseImpl_allSettled(Cur, iterable))
    /\ UNCHANGED laterCalls

NextAllSettled ==
  \/ SettledNewDeferred \/ SettledCapResolve \/ SettledCapReject
  \/ CallAllSettled \/ RunTask

SpecAllSettled == Init /\ [][NextAllSettled]_vars

\* -------------------------------------------------------------------- race
\* User code holds deferred handles, passes an array of them and of plain
\* values to PromiseImpl.race, and settles the handles in any order.
RaceNewDeferred == NewDeferredUpTo(MaxRaceDeferred)
RaceCapResolve  == CallResolveWith({PlainValue}, MaxRaceCalls)
RaceCapReject   == CallRejectWith({PlainReason}, MaxRaceCalls)
CallRace ==
  \E iterable \in ArraysUpTo({Plain(7), Null} \cup DeferredValues, MaxRaceLen) :
    /\ Len(races) < MaxRaces
    /\ Becomes(PromiseImpl_race(Cur, iterable))
    /\ UNCHANGED laterCalls

NextRace ==
  RaceNewDeferred \/ RaceCapResolve \/ RaceCapReject \/ CallRace \/ RunTask

SpecRace == Init /\ [][NextRace]_vars

\* ----------------------------------------------------------------- finally
\* User code holds deferred handles, settles them in any order, and calls
\* finally() on one with a function that returns a plain value or one of the
\* handles' futures.
FinallyNewDeferred == NewDeferredUpTo(MaxFinallyDeferred)
FinallyCapResolve  == CallResolveWith({PlainValue}, MaxFinallyCalls)
FinallyCapReject   == CallRejectWith({PlainReason}, MaxFinallyCalls)
CallFinally ==
  \E p \in Deferreds, x \in {Plain(9)} \cup DeferredValues :
    /\ Count(origin, "finally") < MaxFinallys
    /\ Becomes(finally(Cur, p, x))
    /\ UNCHANGED laterCalls

NextFinally ==
  \/ FinallyNewDeferred \/ FinallyCapResolve \/ FinallyCapReject
  \/ CallFinally \/ RunTask

SpecFinally == Init /\ [][NextFinally]_vars

\* User code holds a deferred handle and passes arrays of it, of plain
\* values and of foreign thenables to PromiseImpl.all.
AllForeignInputs ==
  {Plain(7)} \cup DeferredValues \cup {ThenableV(t) : t \in {1, 4, 5, 6, 11}}
AllForeignNewDeferred == NewDeferredUpTo(MaxAllForeignDeferred)
AllForeignCapResolve  == CallResolveWith({PlainValue}, MaxAllForeignCalls)
AllForeignCapReject   == CallRejectWith({PlainReason}, MaxAllForeignCalls)
CallAllForeign ==
  \E iterable \in ArraysUpTo(AllForeignInputs, MaxAllForeignLen) :
    /\ Len(alls) < MaxAllForeign
    /\ Becomes(PromiseImpl_all(Cur, iterable))
    /\ UNCHANGED laterCalls

NextAllForeign ==
  \/ AllForeignNewDeferred \/ AllForeignCapResolve \/ AllForeignCapReject
  \/ CallAllForeign \/ LaterCall \/ RunTask

SpecAllForeign == Init /\ [][NextAllForeign]_vars

\* ------------------------------------------------------------------ claims
\* C1 (single settlement): in every step, a future whose status has left
\* pending keeps its status, value and reason, whatever capability is called
\* on it and however often; a fulfilled future has no reason and a rejected
\* future has no value.
SingleSettlement ==
  [][\A p \in Promises :
       /\ status[p] # STATUS_PENDING =>
            /\ status'[p] = status[p]
            /\ value'[p] = value[p]
            /\ reason'[p] = reason[p]
       /\ status'[p] = STATUS_FULFILLED => reason'[p] = Null
       /\ status'[p] = STATUS_REJECTED => value'[p] = Null]_vars

\* A future fulfilled by a first resolve(plain value) whose capabilities were
\* then called at least twice more.
SingleSettlementWitness ==
  \E p \in Promises :
    /\ capCount[p] >= 3
    /\ status[p] = STATUS_FULFILLED
    /\ capFirst[p] = Call("res", PlainValue)

\* C5 (self-reference): a future whose resolve capability was called with the
\* future itself, before any other capability call, is rejected with the
\* cyclic-resolution TypeError.
SelfResolveRejects ==
  \A p \in Promises :
    capFirst[p] = Call("res", PromiseV(p)) =>
      status[p] = STATUS_REJECTED /\ reason[p] = TypeError

\* p has adopted, or is waiting to adopt, the outcome of q.
Adopts(p, q) ==
  /\ status[q] = STATUS_PENDING => status[p] = STATUS_PENDING
  /\ status[p] = STATUS_FULFILLED =>
       status[q] = STATUS_FULFILLED /\ value[p] = value[q]
  /\ status[p] = STATUS_REJECTED =>
       status[q] = STATUS_REJECTED /\ reason[p] = reason[q]
  /\ (status[q] # STATUS_PENDING /\ timers = << >>) => status[p] # STATUS_PENDING

\* The future p was given the future q to resolve with, and nothing else:
\* by the one call of its resolve capability, or by its then-handler.
ResolvedWithFuture(p, q) ==
  /\ p # q
  /\ \/ capCount[p] = 1 /\ capFirst[p] = Call("res", PromiseV(q))
     \/ origin[p] = "then" /\ returned[p] = PromiseV(q)

\* C7 (nested unwrap): no fulfilled future holds a future as its value; a
\* future resolved with a future (by its resolve capability or its handler's
\* return value) stays pending while that one is pending and then has its
\* value or reason, so through a chain of any depth the innermost plain value
\* or the first rejection reason.
NestedUnwrap ==
  /\ \A p \in Promises :
       status[p] = STATUS_FULFILLED => value[p].kind # "promise"
  /\ \A p, q \in Promises : ResolvedWithFuture(p, q) => Adopts(p, q)

\* A then-handler returned a future that was resolved with a second future;
\* the dependent future is fulfilled with the innermost plain value.
NestedUnwrapWitness ==
  \E p, q, r \in Promises :
    /\ origin[p] = "then" /\ returned[p] = PromiseV(q)
    /\ capCount[q] = 1 /\ capFirst[q] = Call("res", PromiseV(r))
    /\ Cardinality({p, q, r}) = 3
    /\ status[p] = STATUS_FULFILLED /\ value[p] = PlainValue

\* The task of invoked[i] sits in a registry of its source: then() was
\* called while the source was pending.
RegisteredPending(i) ==
  \E k \in 1 .. Len(onFulfilledCbs[invoked[i].src]) :
    onFulfilledCbs[invoked[i].src][k].dep = invoked[i].dep

\* C2 (deferred execution): a step in which a then-handler is invoked is a
\* step that takes the oldest callback from the timer queue and runs it, and
\* the handler is the one of that callback; so no handler runs in the step
\* that called then() or in the step that settled the source.
DeferredExecution ==
  [][invoked' # invoked =>
       /\ timers # << >>
       /\ invoked' = Append(invoked, Head(timers))
       /\ Len(timers') >= Len(timers) - 1
       /\ SubSeq(timers', 1, Len(timers) - 1) = Tail(timers)]_vars

\* Handlers have run whose then() was called on a pending, on a fulfilled
\* and on a rejected source.
DeferredExecutionWitness ==
  /\ \E i \in 1 .. Len(invoked) : RegisteredPending(i)
  /\ \E i \in 1 .. Len(invoked) : ~RegisteredPending(i) /\ invoked[i].path = "F"
  /\ \E i \in 1 .. Len(invoked) : ~RegisteredPending(i) /\ invoked[i].path = "R"

\* C3 (order preservation): the handlers of one source run in the order of
\* the then() calls that registered them (the dependent futures are numbered
\* in the order of the then() calls).
OrderPreservation ==
  \A i, j \in 1 .. Len(invoked) :
    (i < j /\ invoked[i].src = invoked[j].src) => invoked[i].dep < invoked[j].dep

\* Three handlers of one source have run, two registered before the
\* settlement and one after it.
OrderPreservationWitness ==
  \E i, j, k \in 1 .. Len(invoked) :
    /\ i < j /\ j < k
    /\ invoked[i].src = invoked[j].src /\ invoked[j].src = invoked[k].src
    /\ RegisteredPending(i) /\ RegisteredPending(j) /\ ~RegisteredPending(k)

\* The links of the calls of a foreign then made by the Resolution Procedure
\* and by PromiseImpl.resolve.
LinksVia(via) == {g \in 1 .. Len(links) : links[g].via = via}

\* The target of the link g is settled by the first thing its foreign then
\* did (c), and by nothing it did later: not called and not thrown, the target
\* is pending; thrown first, rejected with the exception; rejectPromise(r)
\* first, rejected with r; resolvePromise(y) first, resolved with y as the
\* Resolution Procedure resolves it: rejected with the TypeError when y is the
\* target, adopting y when y is a future (a future fulfilled with a foreign
\* object hands that object to the procedure again), never fulfilled with y
\* when y is a foreign thenable, fulfilled with y otherwise.
FirstWins(g) ==
  LET p == links[g].target
      c == links[g].first
      y == links[g].first.arg
  IN  CASE c.cb = "none"  -> status[p] = STATUS_PENDING
        [] c.cb = "throw" -> status[p] = STATUS_REJECTED /\ reason[p] = ForeignError
        [] c.cb = "rej"   -> status[p] = STATUS_REJECTED /\ reason[p] = y
        [] c.cb = "res" /\ y = PromiseV(p) ->
             status[p] = STATUS_REJECTED /\ reason[p] = TypeError
        [] c.cb = "res" /\ y.kind = "promise" /\ y # PromiseV(p) ->
             /\ status[y.n] = STATUS_PENDING => status[p] = STATUS_PENDING
             /\ status[p] = STATUS_FULFILLED =>
                  status[y.n] = STATUS_FULFILLED /\ value[p] = value[y.n]
                    /\ value[p].kind # "thenable"
             /\ status[p] = STATUS_REJECTED =>
                  \/ status[y.n] = STATUS_REJECTED /\ reason[p] = reason[y.n]
                  \/ status[y.n] = STATUS_FULFILLED /\ value[y.n].kind = "thenable"
        [] c.cb = "res" /\ y.kind = "thenable" ->
             ~(status[p] = STATUS_FULFILLED /\ value[p] = y)
        [] OTHER -> status[p] = STATUS_FULFILLED /\ value[p] = y

\* C4 (once-guard): for every call of a foreign then made by the Resolution
\* Procedure, the dependent future is settled from what that then did first;
\* later invocations of either callback, and an exception thrown after a
\* callback was invoked, change nothing, also while the future passed by the
\* first invocation is still pending.
ThenableOnceGuard == \A g \in LinksVia("prp") : FirstWins(g)

\* A foreign then passed a future to resolvePromise and then invoked a
\* callback again (or threw); the dependent future has since been fulfilled
\* with that future's value.  And a foreign then invoked a callback later,
\* twice.
ThenableOnceGuardWitness ==
  /\ \E g \in LinksVia("prp") :
       /\ links[g].first.cb = "res" /\ links[g].first.arg.kind = "promise"
       /\ links[g].ncalls >= 2
       /\ status[links[g].target] = STATUS_FULFILLED
  /\ \E g \in LinksVia("prp") :
       /\ Thenables[links[g].thenable].sync = << >>
       /\ links[g].ncalls >= 2
       /\ status[links[g].target] # STATUS_PENDING

\* C6 (cyclic resolution through then): a dependent future whose handler
\* returned that same future, or whose handler returned a foreign thenable
\* that passed that same future to resolvePromise first, is rejected with the
\* TypeError.
CyclicThenRejects ==
  /\ \A p \in Promises :
       (origin[p] = "then" /\ returned[p] = PromiseV(p)) =>
         status[p] = STATUS_REJECTED /\ reason[p] = TypeError
  /\ \A g \in LinksVia("prp") :
       links[g].first = Call("res", PromiseV(links[g].target)) =>
         /\ status[links[g].target] = STATUS_REJECTED
         /\ reason[links[g].target] = TypeError

\* Both cases have happened.
CyclicThenRejectsWitness ==
  /\ \E p \in Promises : origin[p] = "then" /\ returned[p] = PromiseV(p)
  /\ \E g \in LinksVia("prp") :
       links[g].first = Call("res", PromiseV(links[g].target))

\* C8 (static resolve of a foreign thenable): the future PromiseImpl.resolve
\* returns is settled from what the foreign then did first, as the Resolution
\* Procedure would settle it.
StaticResolveFollowsProcedure == \A g \in LinksVia("resolve") : FirstWins(g)

\* C9 (thenable at the resolve capability): a future whose resolve capability
\* was first called with a foreign thenable is not fulfilled with that object.
CapabilityAdoptsThenable ==
  \A p \in Promises :
    (capFirst[p].cb = "res" /\ capFirst[p].arg.kind = "thenable") =>
      ~(status[p] = STATUS_FULFILLED /\ value[p] = capFirst[p].arg)

\* The inputs of the a-th all() call are futures and plain values only.
FuturesAndPlain(a) ==
  \A i \in 1 .. Len(alls[a].iterable) :
    alls[a].iterable[i].kind \in {"promise", "plain"}

\* C10 (all ordering): the future all(inputs) returns, once fulfilled, holds
\* an array as long as the inputs whose i-th entry is the fulfilment value of
\* the i-th input (the input itself when plain), whatever the order in which
\* the inputs fulfilled; it is fulfilled once every input has fulfilled and
\* the timer queue has run; for the empty input it is fulfilled with the
\* empty array when all() returns.
AllOrdering ==
  \A a \in 1 .. Len(alls) :
    FuturesAndPlain(a) =>
      LET p  == alls[a].target
          it == alls[a].iterable
      IN  /\ Len(it) = 0 =>
                status[p] = STATUS_FULFILLED /\ value[p] = ArrayV(a)
                  /\ alls[a].res = << >>
          /\ status[p] = STATUS_FULFILLED =>
               /\ value[p] = ArrayV(a)
               /\ Len(alls[a].res) = Len(it)
               /\ \A i \in 1 .. Len(it) :
                    IF it[i].kind = "promise"
                    THEN /\ status[it[i].n] = STATUS_FULFILLED
                         /\ alls[a].res[i] = value[it[i].n]
                    ELSE alls[a].res[i] = it[i]
          /\ ( /\ timers = << >>
               /\ \A i \in 1 .. Len(it) :
                    it[i].kind = "promise" => status[it[i].n] = STATUS_FULFILLED )
               => status[p] = STATUS_FULFILLED

\* all([d1, 7, d2]) is fulfilled, d1 and d2 hold different values, and the
\* third input reported before the first.
AllOrderingWitness ==
  \E a \in 1 .. Len(alls) :
    /\ Len(alls[a].iterable) = 3
    /\ alls[a].iterable[1].kind = "promise"
    /\ alls[a].iterable[2].kind = "plain"
    /\ alls[a].iterable[3].kind = "promise"
    /\ status[alls[a].target] = STATUS_FULFILLED
    /\ alls[a].res[1] # alls[a].res[3]
    /\ alls[a].order = << 2, 3, 1 >>

\* C11 (all completeness): the future all(inputs) returns is fulfilled only
\* when every index of the inputs has reported a value, whether the input is
\* a future, a plain value or a foreign thenable (one that invokes its
\* fulfil callback twice included).
AllCompleteness ==
  \A a \in 1 .. Len(alls) :
    status[alls[a].target] = STATUS_FULFILLED =>
      \A i \in 1 .. Len(alls[a].iterable) :
        \E k \in 1 .. Len(alls[a].order) : alls[a].order[k] = i

\* The rejection of the input future q is on its way to the future p that
\* all() returned: the callback that delivers it is in the timer queue.
RejectionQueued(q, p) ==
  \E k \in 1 .. Len(timers) :
    timers[k].src = q /\ timers[k].path = "R" /\ timers[k].h = RejectCap(p)

\* Every input future of the a-th all() call that is rejected has rejected
\* the combined future or is about to, whatever the state of the other
\* inputs; a rejected combined future has the reason of a rejected input.
FailFastState(a) ==
  /\ \A i \in 1 .. Len(alls[a].iterable) :
       (alls[a].iterable[i].kind = "promise"
          /\ status[alls[a].iterable[i].n] = STATUS_REJECTED) =>
         \/ status[alls[a].target] = STATUS_REJECTED
         \/ RejectionQueued(alls[a].iterable[i].n, alls[a].target)
  /\ status[alls[a].target] = STATUS_REJECTED =>
       \E i \in 1 .. Len(alls[a].iterable) :
         /\ alls[a].iterable[i].kind = "promise"
         /\ status[alls[a].iterable[i].n] = STATUS_REJECTED
         /\ reason[alls[a].target] = reason[alls[a].iterable[i].n]

\* The combined future of the a-th all() call becomes rejected in the step
\* that delivers the oldest queued rejection of an input, with that input's
\* reason; once rejected, no step changes its status or reason.
FailFastStep(a) ==
  /\ (status[alls[a].target] = STATUS_PENDING
        /\ status'[alls[a].target] = STATUS_REJECTED) =>
       /\ timers # << >>
       /\ Head(timers).path = "R"
       /\ Head(timers).h = RejectCap(alls[a].target)
       /\ \E i \in 1 .. Len(alls[a].iterable) :
            alls[a].iterable[i] = PromiseV(Head(timers).src)
       /\ reason'[alls[a].target] = reason[Head(timers).src]
  /\ status[alls[a].target] = STATUS_REJECTED =>
       /\ status'[alls[a].target] = STATUS_REJECTED
       /\ reason'[alls[a].target] = reason[alls[a].target]

\* C12 (all fail-fast): when an input future of all(inputs) rejects, the
\* combined future is rejected with that input's reason as soon as the
\* rejection is delivered, without waiting for the other inputs; the first
\* rejection delivered wins, and neither fulfilments nor rejections of the
\* other inputs change the combined future afterwards.
AllFailFast ==
  /\ [](\A a \in 1 .. Len(alls) : FuturesAndPlain(a) => FailFastState(a))
  /\ [][\A a \in 1 .. Len(alls) : FuturesAndPlain(a) => FailFastStep(a)]_vars

\* all([d1, d2]) is rejected with the reason of d2; d1 was rejected with a
\* different reason, and every queued callback has run.
AllFailFastWitness ==
  \E a \in 1 .. Len(alls) :
    /\ Len(alls[a].iterable) = 2
    /\ alls[a].iterable[1].kind = "promise" /\ alls[a].iterable[2].kind = "promise"
    /\ status[alls[a].target] = STATUS_REJECTED
    /\ status[alls[a].iterable[2].n] = STATUS_REJECTED
    /\ reason[alls[a].target] = reason[alls[a].iterable[2].n]
    /\ status[alls[a].iterable[1].n] = STATUS_REJECTED
    /\ reason[alls[a].iterable[1].n] # reason[alls[a].target]
    /\ timers = << >>

\* The future whose then() call returned the future d.
SourceOf(d) == thens[CHOOSE k \in 1 .. Len(thens) : thens[k].dep = d].src

\* The a-th all() call was made by allSettled: its inputs are the futures
\* returned by then(value => record, reason => record).
IsAllSettled(a) ==
  \A i \in 1 .. Len(alls[a].iterable) :
    /\ alls[a].iterable[i].kind = "promise"
    /\ \E k \in 1 .. Len(thens) :
         /\ thens[k].dep = alls[a].iterable[i].n
         /\ thens[k].onFulfilled = RecordFulfilled

\* The record of the outcome of the future q (a hole while q is pending).
OutcomeRecord(q) ==
  CASE status[q] = STATUS_FULFILLED -> SettledRecord(STATUS_FULFILLED, value[q])
    [] status[q] = STATUS_REJECTED  -> SettledRecord(STATUS_REJECTED, reason[q])
    [] OTHER -> Hole

\* C13 (allSettled never rejects): the future allSettled(inputs) returns is
\* never rejected; when it is fulfilled, its array holds one record per input
\* in input order, { fulfilled, value } for a fulfilled input and
\* { rejected, reason } for a rejected one (a plain input is an
\* already-fulfilled future of that value); it is fulfilled once every input
\* has settled and the queued callbacks have run, and at once for no inputs.
AllSettledNeverRejects ==
  \A a \in 1 .. Len(alls) :
    IsAllSettled(a) =>
      /\ status[alls[a].target] # STATUS_REJECTED
      /\ \A i \in 1 .. Len(alls[a].iterable) :
           origin[SourceOf(alls[a].iterable[i].n)] = "resolve" =>
             /\ status[SourceOf(alls[a].iterable[i].n)] = STATUS_FULFILLED
             /\ value[SourceOf(alls[a].iterable[i].n)].kind = "plain"
      /\ status[alls[a].target] = STATUS_FULFILLED =>
           /\ value[alls[a].target] = ArrayV(a)
           /\ Len(alls[a].res) = Len(alls[a].iterable)
           /\ \A i \in 1 .. Len(alls[a].iterable) :
                alls[a].res[i] = OutcomeRecord(SourceOf(alls[a].iterable[i].n))
      /\ ( /\ timers = << >>
           /\ \A i \in 1 .. Len(alls[a].iterable) :
                status[SourceOf(alls[a].iterable[i].n)] # STATUS_PENDING )
           => status[alls[a].target] = STATUS_FULFILLED

\* allSettled([d, 7]) with d rejected is fulfilled with
\* [{ rejected, reason }, { fulfilled, 7 }].
AllSettledNeverRejectsWitness ==
  \E a \in 1 .. Len(alls) :
    /\ IsAllSettled(a)
    /\ Len(alls[a].iterable) = 2
    /\ origin[SourceOf(alls[a].iterable[1].n)] = "deferred"
    /\ origin[SourceOf(alls[a].iterable[2].n)] = "resolve"
    /\ status[alls[a].target] = STATUS_FULFILLED
    /\ alls[a].res = << SettledRecord(STATUS_REJECTED, PlainReason),
                        SettledRecord(STATUS_FULFILLED, Plain(7)) >>

\* C14 (race): the future race(inputs) returns for a non-empty array of
\* futures and plain values is fulfilled with the first element when that is
\* a plain value, and otherwise adopts the outcome of the first element:
\* pending while it is pending, then settled as it is; the later elements
\* have no influence, also when they settle before the first one.
RaceFirstOnly ==
  \A r \in 1 .. Len(races) :
    Len(races[r].iterable) > 0 =>
      IF races[r].iterable[1].kind = "promise"
      THEN Adopts(races[r].target, races[r].iterable[1].n)
      ELSE /\ status[races[r].target] = STATUS_FULFILLED
           /\ value[races[r].target] = races[r].iterable[1]

\* race([d1, d2]) is pending although d2 is settled and every queued callback
\* has run.
RaceFirstOnlyWitness ==
  \E r \in 1 .. Len(races) :
    /\ Len(races[r].iterable) = 2
    /\ races[r].iterable[1].kind = "promise"
    /\ races[r].iterable[2].kind = "promise"
    /\ races[r].iterable[1] # races[r].iterable[2]
    /\ status[races[r].iterable[2].n] # STATUS_PENDING
    /\ status[races[r].iterable[1].n] = STATUS_PENDING
    /\ status[races[r].target] = STATUS_PENDING
    /\ timers = << >>

\* The calls of onFinally made for the finally() call that returned d.
OnFinallyCalls(d) ==
  {i \in 1 .. Len(invoked) : invoked[i].dep = d /\ invoked[i].h.kind = "onFinally"}

\* The function given to finally() returns the value x: a plain value or a
\* future that is not rejected.
ReturnsAFulfilling(x) == x.kind = "promise" => status[x.n] # STATUS_REJECTED

\* The call src.finally(() => x) returned d.
FinallyPreservesCall(src, d, x) ==
  /\ Cardinality(OnFinallyCalls(d)) <= 1
  /\ \A i \in OnFinallyCalls(d) :
       /\ invoked[i].h.val = Undefined
       /\ invoked[i].src = src
       /\ status[src] # STATUS_PENDING
  /\ OnFinallyCalls(d) = {} => status[d] = STATUS_PENDING
  /\ (status[src] # STATUS_PENDING /\ timers = << >>) => OnFinallyCalls(d) # {}
  /\ (x.kind = "promise" /\ status[x.n] = STATUS_PENDING) =>
       status[d] = STATUS_PENDING
  /\ ReturnsAFulfilling(x) =>
       /\ status[d] # STATUS_PENDING =>
            /\ status[d] = status[src]
            /\ value[d] = value[src]
            /\ reason[d] = reason[src]
       /\ ( /\ status[src] # STATUS_PENDING /\ timers = << >>
            /\ x.kind = "promise" => status[x.n] = STATUS_FULFILLED )
            => status[d] # STATUS_PENDING

\* C15 (finally): for p.finally(onFinally) with onFinally returning a plain
\* value or a future that fulfils, onFinally is called at most once, only
\* after p has settled, with no argument, and once when p has settled and the
\* queued callbacks have run; the returned future stays pending until
\* onFinally was called and the future it returned has settled, and then
\* has the status, value and reason of p.
FinallyPreserves ==
  \A k \in 1 .. Len(thens) :
    origin[thens[k].dep] = "finally" =>
      FinallyPreservesCall(thens[k].src, thens[k].dep, thens[k].onFulfilled.val)

\* p.finally(() => q) on a rejected p: onFinally has run once, q is
\* fulfilled, and the returned future is rejected with the reason of p.
FinallyPreservesWitness ==
  \E k \in 1 .. Len(thens) :
    /\ origin[thens[k].dep] = "finally"
    /\ thens[k].onFulfilled.val.kind = "promise"
    /\ thens[k].onFulfilled.val.n # thens[k].src
    /\ status[thens[k].onFulfilled.val.n] = STATUS_FULFILLED
    /\ status[thens[k].src] = STATUS_REJECTED
    /\ status[thens[k].dep] = STATUS_REJECTED
    /\ reason[thens[k].dep] = PlainReason
    /\ Cardinality(OnFinallyCalls(thens[k].dep)) = 1

\* The future d settled as the handler h decides, for the value or reason v
\* of the source: a user handler that returns fulfils d with what it
\* returns, one that throws rejects d with what it throws; a missing
\* onFulfilled passes the value on, a missing onRejected the reason.
SettledBy(d, h, path, v) ==
  CASE h.kind = "returns" -> status[d] = STATUS_FULFILLED /\ value[d] = h.val
    [] h.kind = "throws"  -> status[d] = STATUS_REJECTED /\ reason[d] = h.val
    [] h.kind = "none" /\ path = "F" -> status[d] = STATUS_FULFILLED /\ value[d] = v
    [] h.kind = "none" /\ path = "R" -> status[d] = STATUS_REJECTED /\ reason[d] = v

\* The call src.then(onF, onR) (or src.catch(onR), onF missing) returned d.
HandlerOutcomeOf(src, d, onF, onR) ==
  /\ status[src] = STATUS_PENDING => status[d] = STATUS_PENDING
  /\ (status[src] # STATUS_PENDING /\ timers = << >>) => status[d] # STATUS_PENDING
  /\ (status[d] # STATUS_PENDING /\ status[src] = STATUS_FULFILLED) =>
       SettledBy(d, onF, "F", value[src])
  /\ (status[d] # STATUS_PENDING /\ status[src] = STATUS_REJECTED) =>
       SettledBy(d, onR, "R", reason[src])
  /\ \A i \in 1 .. Len(invoked) :
       invoked[i].dep = d =>
         /\ invoked[i].src = src
         /\ invoked[i].path = "F" =>
              status[src] = STATUS_FULFILLED /\ invoked[i].h = onF
         /\ invoked[i].path = "R" =>
              status[src] = STATUS_REJECTED /\ invoked[i].h = onR

\* C16 (handler outcome): for every call p.then(f, g) and p.catch(g) with
\* handlers that return a non-thenable value or throw, the dependent future
\* is settled by the handler the outcome of p selects: fulfilled with what it
\* returns, rejected with what it throws; a missing onFulfilled acts as the
\* identity and a missing onRejected re-raises the reason.
HandlerOutcome ==
  \A k \in 1 .. Len(thens) :
    origin[thens[k].dep] = "then" =>
      HandlerOutcomeOf(thens[k].src, thens[k].dep,
                       thens[k].onFulfilled, thens[k].onRejected)

\* p is fulfilled; p.catch(f) is fulfilled with the value of p; p.then(f)
\* with a throwing f is rejected with what f threw, and then(f) on that
\* rejected future is rejected with its reason.
HandlerOutcomeWitness ==
  \E i, j, k \in 1 .. Len(thens) :
    /\ thens[i].onFulfilled = NotAFunction /\ thens[i].onRejected.kind = "returns"
    /\ status[thens[i].src] = STATUS_FULFILLED
    /\ status[thens[i].dep] = STATUS_FULFILLED
    /\ value[thens[i].dep] = value[thens[i].src]
    /\ thens[j].onFulfilled.kind = "throws"
    /\ status[thens[j].dep] = STATUS_REJECTED
    /\ reason[thens[j].dep] = thens[j].onFulfilled.val
    /\ thens[k].src = thens[j].dep
    /\ thens[k].onFulfilled.kind = "throws" /\ thens[k].onRejected = NotAFunction
    /\ status[thens[k].dep] = STATUS_REJECTED
    /\ reason[thens[k].dep] = reason[thens[k].src]

\* C17 (error containment): no exception thrown while a foreign then member
\* is read or invoked leaves the program as a raw exception; when the throw
\* is the first thing the foreign object did, the target future is rejected
\* with the thrown error.
ErrorContainment ==
  /\ ~escaped
  /\ \A g \in 1 .. Len(links) :
       links[g].first.cb = "throw" =>
         /\ status[links[g].target] = STATUS_REJECTED
         /\ reason[links[g].target] = ForeignError

\* C18 (callback registries): the registries of a future grow only while it
\* is pending; the registry that matches its outcome is empty once it has
\* settled; no callback of a registry runs its handler twice.
RegistryDiscipline ==
  /\ [](\A p \in Promises :
         /\ status[p] = STATUS_FULFILLED => onFulfilledCbs[p] = << >>
         /\ status[p] = STATUS_REJECTED => onRejectedCbs[p] = << >>)
  /\ [](\A i, j \in 1 .. Len(invoked) : invoked[i] = invoked[j] => i = j)
  /\ [][\A p \in Promises :
         status[p] # STATUS_PENDING =>
           /\ onFulfilledCbs'[p] = onFulfilledCbs[p]
           /\ onRejectedCbs'[p] = onRejectedCbs[p]]_vars

\* How often the callback t of a registry has been handed to setTimeout: it
\* is in the timer queue, or its handler has run.
TimesScheduled(t) == Count(timers, t) + Count(invoked, t)

\* The registry cbs of p, which matches the outcome st: no callback is
\* scheduled while p is pending or has the other outcome; once p has the
\* outcome st every callback has been scheduled once (seen for the callbacks
\* of user handlers, whose runs are recorded), and never twice.
DrainedOnce(p, cbs, st) ==
  \A k \in 1 .. Len(cbs) :
    /\ cbs[k].src = p
    /\ TimesScheduled(cbs[k]) <= 1
    /\ status[p] # st => TimesScheduled(cbs[k]) = 0
    /\ (status[p] = st /\ IsUserHandler(cbs[k].h)) => TimesScheduled(cbs[k]) = 1

\* The step settles p with the outcome st: the callbacks of the registry cbs
\* join the timer queue, in the order of the registry.
DrainedInOrder(p, cbs, st) ==
  (status[p] = STATUS_PENDING /\ status'[p] = st) =>
    /\ Len(timers') >= Len(cbs)
    /\ SubSeq(timers', Len(timers') - Len(cbs) + 1, Len(timers')) = cbs

\* C18 as amended: the registries of a future grow only while it is pending
\* and are never cleared: a settled future keeps both registries as they
\* were; the registry that matches the outcome is walked once, in the step
\* of the transition and in registration order, and no callback of either
\* registry is scheduled a second time.
RegistryDisciplineKept ==
  /\ [](\A p \in Promises :
         /\ DrainedOnce(p, onFulfilledCbs[p], STATUS_FULFILLED)
         /\ DrainedOnce(p, onRejectedCbs[p], STATUS_REJECTED))
  /\ [][\A p \in Promises :
         /\ status[p] # STATUS_PENDING =>
              /\ onFulfilledCbs'[p] = onFulfilledCbs[p]
              /\ onRejectedCbs'[p] = onRejectedCbs[p]
         /\ DrainedInOrder(p, onFulfilledCbs[p], STATUS_FULFILLED)
         /\ DrainedInOrder(p, onRejectedCbs[p], STATUS_REJECTED)]_vars

\* A fulfilled future with two callbacks in its fulfilment registry, both
\* run, on which then() was called a third time after it had settled.
RegistryDisciplineKeptWitness ==
  \E p \in Promises :
    /\ status[p] = STATUS_FULFILLED
    /\ Len(onFulfilledCbs[p]) = 2
    /\ \A k \in 1 .. 2 : Count(invoked, onFulfilledCbs[p][k]) = 1
    /\ Cardinality({k \in 1 .. Len(thens) : thens[k].src = p}) = 3
    /\ timers = << >>

\* The resolve capability of p was first called with a future.
ResolvedWithNested(p) ==
  capFirst[p].cb = "res" /\ capFirst[p].arg.kind = "promise"

\* The step is the first capability call of p, resolve(N) for a pending
\* future N: p is pending after it.
NestedLeavesPending(p) ==
  (capCount[p] = 0 /\ capCount'[p] = 1 /\ capFirst'[p].cb = "res"
     /\ capFirst'[p].arg.kind = "promise"
     /\ status[capFirst'[p].arg.n] = STATUS_PENDING)
    => status'[p] = STATUS_PENDING

\* The step is a later capability call of the pending p, reject(r) or
\* resolve(v) for a plain v (no future is created by it): it settles p with
\* r or v.
NestedDoesNotLock(p) ==
  (ResolvedWithNested(p) /\ status[p] = STATUS_PENDING
     /\ capCount'[p] = capCount[p] + 1 /\ Len(status') = Len(status))
    => \/ status'[p] = STATUS_REJECTED /\ reason'[p] = PlainReason
       \/ status'[p] = STATUS_FULFILLED /\ value'[p] = PlainValue

\* p has settled: the step, the settlement of the nested future and the
\* delivery of its outcome included, leaves p as it is.
NestedSettlesLater(p) ==
  (ResolvedWithNested(p) /\ status[p] # STATUS_PENDING) =>
    status'[p] = status[p] /\ value'[p] = value[p] /\ reason'[p] = reason[p]

\* C19 (no lock-in): after resolve(N) with a pending future N the future F
\* is pending; a later reject(r) or resolve(v) with a plain v on the still
\* pending F settles it with r or v; and F stays as it is when N settles
\* afterwards.
NestedNoLockIn ==
  [][\A p \in Promises :
       NestedLeavesPending(p) /\ NestedDoesNotLock(p) /\ NestedSettlesLater(p)]_vars

\* F was resolved with N and then rejected through its own capability; N has
\* been fulfilled and its outcome delivered, and F is still rejected.
NestedNoLockInWitness ==
  \E p, q \in Promises :
    /\ p # q
    /\ capFirst[p] = Call("res", PromiseV(q))
    /\ capCount[p] = 2
    /\ status[p] = STATUS_REJECTED /\ reason[p] = PlainReason
    /\ status[q] = STATUS_FULFILLED
    /\ timers = << >>

\* The runs of user handlers for the dependent future d.
RunsFor(d) == {i \in 1 .. Len(invoked) : invoked[i].dep = d}

\* The handler of the k-th then() call that the outcome of its source
\* selects, and the callback that runs it.
Selected(k) ==
  IF status[thens[k].src] = STATUS_FULFILLED
  THEN Task(thens[k].src, thens[k].dep, "F", thens[k].onFulfilled)
  ELSE Task(thens[k].src, thens[k].dep, "R", thens[k].onRejected)

\* At most one handler of the k-th then() call has run, at most once: the
\* one its settled source selects, with the value or reason of the source;
\* while the source is pending none has run and the dependent is pending.
AtMostOnce(k) ==
  /\ Cardinality(RunsFor(thens[k].dep)) <= 1
  /\ \A i \in RunsFor(thens[k].dep) :
       /\ status[thens[k].src] # STATUS_PENDING
       /\ invoked[i] = Selected(k)
       /\ invokedArgs[i] = IF status[thens[k].src] = STATUS_FULFILLED
                           THEN value[thens[k].src] ELSE reason[thens[k].src]
  /\ status[thens[k].src] = STATUS_PENDING =>
       status[thens[k].dep] = STATUS_PENDING

\* The k-th then() call was made and its source has settled.
SourceSettled(k) ==
  k <= Len(thens) /\ status[thens[k].src] # STATUS_PENDING

\* The selected handler of the k-th then() call, when it is a function, has
\* run, and the dependent future has left the pending state.
HandlerDone(k) ==
  /\ k <= Len(thens)
  /\ IsUserHandler(Selected(k).h) => RunsFor(thens[k].dep) # {}
  /\ status[thens[k].dep] # STATUS_PENDING

\* C20 (liveness of then): when every callback handed to setTimeout is
\* eventually run, for every call p.then(f, g) whose source is settled or
\* settles, the handler the outcome selects is eventually invoked, once and
\* with the value or reason of p, the other one never, and the dependent
\* future eventually leaves the pending state (the handlers here throw or
\* return a plain value); while p is pending neither handler is invoked and
\* the dependent future is pending.
ThenLiveness ==
  /\ [](\A k \in 1 .. Len(thens) : AtMostOnce(k))
  /\ \A k \in 1 .. MaxSchedThens : SourceSettled(k) ~> HandlerDone(k)

\* then(f, g) was called on a pending source and on a settled one; both
\* sources are settled, f has run once for each call and both dependent
\* futures are settled.
ThenLivenessWitness ==
  \E j, k \in 1 .. Len(thens) :
    /\ thens[j].src = thens[k].src /\ j # k
    /\ Count(onFulfilledCbs[thens[j].src], Selected(j)) = 1
    /\ Count(onFulfilledCbs[thens[k].src], Selected(k)) = 0
    /\ status[thens[j].src] = STATUS_FULFILLED
    /\ IsUserHandler(thens[j].onFulfilled) /\ IsUserHandler(thens[k].onFulfilled)
    /\ Cardinality(RunsFor(thens[j].dep)) = 1
    /\ Cardinality(RunsFor(thens[k].dep)) = 1
    /\ status[thens[j].dep] # STATUS_PENDING
    /\ status[thens[k].dep] # STATUS_PENDING

====
